---- MODULE Spec2Model ----
(***************************************************************************)
(* zrglng: a download is probed with HEAD, split into byte ranges, the     *)
(* ranges are fetched by concurrent tasks into temporary files, and the    *)
(* temporaries are concatenated into the destination (src/main.rs).        *)
(*                                                                         *)
(* Two specifications:                                                     *)
(*   PlanSpec  get_ranges alone, as a pure function of its two arguments;  *)
(*   Spec      one run of parallel_get, from the HEAD request to the       *)
(*             process exit, with the part tasks interleaved.              *)
(***************************************************************************)
EXTENDS Integers, Sequences, FiniteSets, TLC

(* ------------------------------ bounds --------------------------------- *)

\* largest resource length of a run (Spec)
MaxLen == 3
\* largest --parts of a run (Spec)
MaxParts == 2
\* largest content_length and parts handed to get_ranges in PlanSpec
MaxPlanLen == 12
MaxPlanParts == 13
\* u64 is modelled WordBits wide: the only wrapping operation of the program
\* is `end - 1` at end = 0, whose result is the largest value of the type
WordBits == 10

VARIABLES
    \* ---- PlanSpec: one call of get_ranges
    pl_pc,          \* "input" | "planned" | "built" | "selected" |
                    \* "panicked" | "off"
    pl_len,         \* argument content_length
    pl_parts,       \* argument parts
    pl_out,         \* the collected iterator, a sequence of RangeQuery
    pl_dest,        \* file name of the destination, a sequence of characters
    pl_sinks,       \* file name of PartialGetter.dest, per range
    pl_sel,         \* the Range header of each range: <<first, last>>
    \* ---- Spec: the inputs of a run
    arg_parts,      \* Args.parts
    resLen,         \* length of the resource the server holds
    overflowChecks, \* build profile: TRUE panics on overflow, FALSE wraps
    \* ---- Spec: the coordinator (parallel_get / full_get / run)
    pc,             \* position of parallel_get, see Init
    exited,         \* the process has exited
    err,            \* the error that run() surfaces, "none" if none
    file_info,      \* FileInfo returned by file_info()
    headAR,         \* Accept-Ranges of the HEAD response, "unknown" without one
    ranges,         \* the collected get_ranges iterator
    files,          \* the joined task results, after try_join_all
    asmPos,         \* index into files of the part being assembled
    \* ---- Spec: the part tasks, indexed by part index
    task,           \* "none" | "spawned" | "sent" | "streaming" | "ok" |
                    \* "panic" | one of PartErrs
    sel,            \* the Range header each task sent: <<first, last>>
    resp,           \* what the server answered: "none" | "exact" | "full"
    \* ---- Spec: the file system
    dest,           \* the destination file
    tmp,            \* the temporary part files, by part index
    \* ---- Spec: history
    headCount,      \* HEAD requests issued
    fullGets,       \* GET requests without Range header issued
    rangeReqs,      \* GET requests with Range header issued, by part index
    destOpens,      \* times the destination was created or truncated
    copied,         \* part indices copied into the destination, in order
    overtaken,      \* some task finished before a task of lower index did
    firstFailed     \* index of the first task whose get() returned an Err,
                    \* -1 while none has

planVars == <<pl_pc, pl_len, pl_parts, pl_out, pl_dest, pl_sinks, pl_sel>>
runVars == <<arg_parts, resLen, overflowChecks, pc, exited, err, file_info,
             headAR, ranges, files, asmPos, task, sel, resp, dest, tmp,
             headCount, fullGets, rangeReqs, destOpens, copied, overtaken,
             firstFailed>>
vars == <<planVars, runVars>>

(* --------------------------- u64 arithmetic ---------------------------- *)

U64 == 2 ^ WordBits
U64Max == U64 - 1

\* a - 1 on u64 in a build without overflow checks
WrappingDec(a) == (a + U64 - 1) % U64

Min(a, b) == IF a <= b THEN a ELSE b

(* ---------------------------- get_ranges ------------------------------- *)

\* a closure that gives the last part the length of the others
RangeQueryNoRemainder(content_length, parts, idx) ==
    LET part_len == content_length \div parts
    IN [start |-> idx * part_len, end |-> (idx + 1) * part_len, idx |-> idx]

\* the closure of get_ranges: the RangeQuery of index idx
RangeQuery(content_length, parts, idx) ==
    LET part_len == content_length \div parts
        start == idx * part_len
        end == IF idx + 1 < parts THEN (idx + 1) * part_len ELSE content_length
    IN [start |-> start, end |-> end, idx |-> idx]

\* a division that yields a value for every divisor
DivNeverPanics(parts) == FALSE

\* line 226, `content_length / parts`: integer division panics on a zero
\* divisor, with or without overflow checks
DivPanics(parts) == parts = 0

\* the iterator of get_ranges, collected: element k has index k - 1, for a
\* call that gets past the division of line 226
get_ranges(content_length, parts) ==
    [k \in 1..parts |-> RangeQuery(content_length, parts, k - 1)]

(* --------------------------- PartialGetter ----------------------------- *)

\* `end - 1` on u64 panics at end = 0 in a build with overflow checks
DecPanics(end) == overflowChecks /\ end = 0

\* a header that sends the exclusive end
InclusiveEndNoDec(end) == end

\* line 61: `self.range.end - 1`, the inclusive end of the Range header,
\* where it does not panic
InclusiveEnd(end) == WrappingDec(end)

\* line 61: the two numbers of `bytes={}-{}`
RangeHeader(r) == <<r.start, InclusiveEnd(r.end)>>

\* format!("{}", idx): the decimal digits of idx
Digit(d) == <<"0", "1", "2", "3", "4", "5", "6", "7", "8", "9">>[d + 1]

RECURSIVE Decimal(_)
Decimal(n) == IF n < 10 THEN <<Digit(n)>>
              ELSE Decimal(n \div 10) \o <<Digit(n % 10)>>

\* a temporary name that leaves the index out
SinkNameNoIndex(name, idx) == <<".">> \o name \o <<".", "p", "a", "r", "t">>

\* lines 39-51: the file name of the temporary, "." then the file name of
\* the destination then ".part-{idx}"; set_file_name keeps the directory
SinkName(name, idx) ==
    <<".">> \o name \o <<".", "p", "a", "r", "t", "-">> \o Decimal(idx)

\* file names of destinations: plain, hidden, and shaped like a temporary
DestNames ==
    { <<"f">>,
      <<".", "f">>,
      <<"f", ".", "p", "a", "r", "t", "-", "1">>,
      <<".", "f", ".", "p", "a", "r", "t", "-", "0">> }

(* ------------------------------ files ---------------------------------- *)

NoFile == [exists |-> FALSE, data |-> <<>>]
File(bytes) == [exists |-> TRUE, data |-> bytes]

\* the resource held by the server: the byte at offset k - 1 is k, so that
\* every byte of the resource identifies its offset
Resource == [k \in 1..resLen |-> k]

\* what the destination holds before the run, when it exists already
OldData == <<0, 0>>

Prefix(s, k) == SubSeq(s, 1, k)

NoErr == [kind |-> "none", idx |-> -1]
Err(kind, idx) == [kind |-> kind, idx |-> idx]

PartIdx == 0..(arg_parts - 1)

(* ------------------------- PlanSpec: get_ranges ------------------------ *)

\* the run variables while get_ranges is examined alone
RunOff ==
    /\ arg_parts = 0 /\ resLen = 0
    /\ pc = "off" /\ exited = TRUE /\ err = NoErr
    /\ file_info = [content_length |-> 0, supports_range |-> FALSE]
    /\ headAR = "absent"
    /\ ranges = <<>> /\ files = <<>> /\ asmPos = 0
    /\ task = <<>> /\ sel = <<>> /\ resp = <<>>
    /\ dest = NoFile /\ tmp = <<>>
    /\ headCount = 0 /\ fullGets = 0 /\ rangeReqs = <<>> /\ destOpens = 0
    /\ copied = <<>> /\ overtaken = FALSE /\ firstFailed = -1

\* the lengths handed to get_ranges: every small one, and one of four
\* digits
PlanLens == (0..MaxPlanLen) \cup {1000}

PlanInit ==
    /\ pl_pc = "input"
    /\ pl_len \in PlanLens
    /\ pl_parts \in 0..MaxPlanParts
    /\ pl_dest \in DestNames
    /\ overflowChecks \in BOOLEAN
    /\ pl_out = <<>> /\ pl_sinks = <<>> /\ pl_sel = <<>>
    /\ RunOff

\* get_ranges(content_length, parts).collect() with parts >= 1
PlanCall ==
    /\ pl_pc = "input"
    /\ ~DivPanics(pl_parts)
    /\ pl_out' = get_ranges(pl_len, pl_parts)
    /\ pl_pc' = "planned"
    /\ UNCHANGED <<pl_len, pl_parts, pl_dest, pl_sinks, pl_sel, runVars>>

\* content_length / 0 panics ("attempt to divide by zero")
PlanPanic ==
    /\ pl_pc = "input"
    /\ DivPanics(pl_parts)
    /\ pl_pc' = "panicked"
    /\ UNCHANGED <<pl_len, pl_parts, pl_out, pl_dest, pl_sinks, pl_sel,
                   runVars>>

\* lines 168-169: PartialGetter::new for every range of the plan
PlanGetters ==
    /\ pl_pc = "planned"
    /\ pl_sinks' = [k \in 1..Len(pl_out) |-> SinkName(pl_dest, pl_out[k].idx)]
    /\ pl_pc' = "built"
    /\ UNCHANGED <<pl_len, pl_parts, pl_out, pl_dest, pl_sel, runVars>>

\* line 61 of every getter, in a run where `end - 1` does not panic
PlanSelectors ==
    /\ pl_pc = "built"
    /\ \A k \in 1..Len(pl_out) : ~DecPanics(pl_out[k].end)
    /\ pl_sel' = [k \in 1..Len(pl_out) |-> RangeHeader(pl_out[k])]
    /\ pl_pc' = "selected"
    /\ UNCHANGED <<pl_len, pl_parts, pl_out, pl_dest, pl_sinks, runVars>>

\* line 61 of a getter whose `end - 1` panics
PlanSelectorPanic ==
    /\ pl_pc = "built"
    /\ \E k \in 1..Len(pl_out) : DecPanics(pl_out[k].end)
    /\ pl_pc' = "panicked"
    /\ UNCHANGED <<pl_len, pl_parts, pl_out, pl_dest, pl_sinks, pl_sel,
                   runVars>>

PlanNext ==
    PlanCall \/ PlanPanic \/ PlanGetters \/ PlanSelectors \/ PlanSelectorPanic

PlanSpec == PlanInit /\ [][PlanNext]_vars

(* ----------------------------- Spec: a run ----------------------------- *)

PlanOff ==
    /\ pl_pc = "off" /\ pl_len = 0 /\ pl_parts = 0 /\ pl_out = <<>>
    /\ pl_dest = <<>> /\ pl_sinks = <<>> /\ pl_sel = <<>>

\* the state when parallel_get is entered: nothing requested, no temporary,
\* the destination either missing or left over from before
Init ==
    /\ PlanOff
    /\ arg_parts \in 0..MaxParts
    /\ resLen \in 0..MaxLen
    /\ overflowChecks \in BOOLEAN
    /\ pc = "Probing" /\ exited = FALSE /\ err = NoErr
    /\ file_info = [content_length |-> 0, supports_range |-> FALSE]
    /\ headAR = "unknown"
    /\ ranges = <<>> /\ files = <<>> /\ asmPos = 0
    /\ task = [i \in PartIdx |-> "none"]
    /\ sel = [i \in PartIdx |-> <<0, 0>>]
    /\ resp = [i \in PartIdx |-> "none"]
    /\ dest \in {NoFile, File(OldData)}
    /\ tmp = [i \in PartIdx |-> NoFile]
    /\ headCount = 0 /\ fullGets = 0
    /\ rangeReqs = [i \in PartIdx |-> 0]
    /\ destOpens = 0
    /\ copied = <<>> /\ overtaken = FALSE /\ firstFailed = -1

(* ---- file_info (the Prober) ---- *)

\* a probe that takes any Accept-Ranges value for support
SupportsRangeAnyValue(ar) == ar # "absent"

\* `.map(|v| v == "bytes").unwrap_or(false)`: ar is the header value, or
\* "absent"
SupportsRange(ar) == ar = "bytes"

\* the Content-Length header of the HEAD response: absent, not a u64, or
\* the length of the resource
NoLengthHeader == [present |-> FALSE, valid |-> TRUE, value |-> 0]
BadLengthHeader == [present |-> TRUE, valid |-> FALSE, value |-> 0]
LengthHeader(n) == [present |-> TRUE, valid |-> TRUE, value |-> n]

\* `.unwrap_or("0")` then parse::<u64>, for a header that parses
ParseContentLength(cl) == IF cl.present THEN cl.value ELSE 0

\* parallel_get lines 143-155 with file_info(): the HEAD request is sent and
\* its response turned into a FileInfo, or the run fails. "transport": send()
\* failed and there is no response; "status": not a success status
Probe(outcome, cl, ar) ==
    /\ pc = "Probing"
    /\ headCount' = headCount + 1
    /\ headAR' = IF outcome = "transport" THEN "unknown" ELSE ar
    /\ IF outcome = "ok" /\ cl.valid
       THEN /\ file_info' = [content_length |-> ParseContentLength(cl),
                             supports_range |-> SupportsRange(ar)]
            /\ pc' = "Planning"
            /\ err' = err
       ELSE /\ pc' = "Failed"
            /\ err' = Err("head", -1)
            /\ UNCHANGED file_info
    /\ UNCHANGED <<planVars, arg_parts, resLen, overflowChecks, exited, ranges,
                   files, asmPos, task, sel, resp, dest, tmp, fullGets,
                   rangeReqs, destOpens, copied, overtaken,
                   firstFailed>>

ProbeStep ==
    \E outcome \in {"ok", "status", "transport"},
       cl \in {NoLengthHeader, BadLengthHeader, LengthHeader(resLen)},
       ar \in {"absent", "bytes", "none", "Bytes"} :
        Probe(outcome, cl, ar)

(* ---- parallel_get, lines 156-172 (Planning) ---- *)

\* a routing that also sends parts <= 1 to full_get
RouteToFullGetOrSinglePart == ~file_info.supports_range \/ arg_parts <= 1

\* the condition of line 156
RouteToFullGet == ~file_info.supports_range

\* a length check that lets every length through
ZeroLengthNever == FALSE

\* the condition of line 159
ZeroLength == file_info.content_length = 0

\* line 157 and full_get lines 189-192: the whole-resource GET is sent
PlanFull ==
    /\ pc = "Planning"
    /\ RouteToFullGet
    /\ fullGets' = fullGets + 1
    /\ pc' = "FullGet"
    /\ UNCHANGED <<planVars, arg_parts, resLen, overflowChecks, exited, err,
                   file_info, headAR, ranges, files, asmPos, task, sel, resp,
                   dest, tmp, headCount, rangeReqs, destOpens, copied,
                   overtaken,
                   firstFailed>>

\* lines 159-161
PlanZeroLength ==
    /\ pc = "Planning"
    /\ ~RouteToFullGet
    /\ ZeroLength
    /\ pc' = "Failed"
    /\ err' = Err("zero_size", -1)
    /\ UNCHANGED <<planVars, arg_parts, resLen, overflowChecks, exited,
                   file_info, headAR, ranges, files, asmPos, task, sel, resp,
                   dest, tmp, headCount, fullGets, rangeReqs, destOpens,
                   copied, overtaken,
                   firstFailed>>

\* line 162 with parts = 0: get_ranges divides by zero, the main task panics
PlanDivByZero ==
    /\ pc = "Planning"
    /\ ~RouteToFullGet
    /\ ~ZeroLength
    /\ DivPanics(arg_parts)
    /\ pc' = "Panicked"
    /\ UNCHANGED <<planVars, arg_parts, resLen, overflowChecks, exited, err,
                   file_info, headAR, ranges, files, asmPos, task, sel, resp,
                   dest, tmp, headCount, fullGets, rangeReqs, destOpens,
                   copied, overtaken,
                   firstFailed>>

\* lines 162-174: the plan is computed and one task per range is spawned
PlanSplit ==
    /\ pc = "Planning"
    /\ ~RouteToFullGet
    /\ ~ZeroLength
    /\ ~DivPanics(arg_parts)
    /\ ranges' = get_ranges(file_info.content_length, arg_parts)
    /\ task' = [i \in PartIdx |-> "spawned"]
    /\ pc' = "Fetching"
    /\ UNCHANGED <<planVars, arg_parts, resLen, overflowChecks, exited, err,
                   file_info, headAR, files, asmPos, sel, resp, dest, tmp,
                   headCount, fullGets, rangeReqs, destOpens, copied,
                   overtaken,
                   firstFailed>>

(* ---- PartialGetter::get, one task per range ---- *)

Range(i) == ranges[i + 1]

\* the bytes a server sends for `Range: bytes=first-last` when it honours it:
\* last is clamped to the last byte of the resource
ServedBytes(first, last) == SubSeq(Resource, first + 1, Min(last, resLen - 1) + 1)

\* the body of the response task i is streaming
Body(i) == IF resp[i] = "exact" THEN ServedBytes(sel[i][1], sel[i][2])
           ELSE Resource

\* how get() can return an Err: send() failed, a status that is not a
\* success, the temporary not created, the body not read or not written
PartErrs == {"transport", "status", "create", "body"}

PartFailed(i) == task[i] \in PartErrs

Finished(i) == task[i] = "ok" \/ task[i] = "panic" \/ PartFailed(i)

\* firstFailed, once the get() of task i has returned an Err
FirstFailure(i) == IF firstFailed = -1 THEN i ELSE firstFailed

\* overtaken, once task i has finished
Overtakes(i) == overtaken \/ \E j \in PartIdx : j < i /\ ~Finished(j)

\* line 61 in a build with overflow checks, for an empty range that ends at
\* 0: `end - 1` panics and the task ends before any request
PartPanic(i) ==
    /\ ~exited
    /\ task[i] = "spawned"
    /\ DecPanics(Range(i).end)
    /\ task' = [task EXCEPT ![i] = "panic"]
    /\ overtaken' = Overtakes(i)
    /\ UNCHANGED <<planVars, arg_parts, resLen, overflowChecks, pc, exited,
                   err, file_info, headAR, ranges, files, asmPos, sel, resp,
                   dest, tmp, headCount, fullGets, rangeReqs, destOpens,
                   copied,
                   firstFailed>>

\* lines 61-68: the range request is sent
PartSend(i) ==
    /\ ~exited
    /\ task[i] = "spawned"
    /\ ~DecPanics(Range(i).end)
    /\ sel' = [sel EXCEPT ![i] = RangeHeader(Range(i))]
    /\ rangeReqs' = [rangeReqs EXCEPT ![i] = @ + 1]
    /\ task' = [task EXCEPT ![i] = "sent"]
    /\ UNCHANGED <<planVars, arg_parts, resLen, overflowChecks, pc, exited,
                   err, file_info, headAR, ranges, files, asmPos, resp, dest,
                   tmp, headCount, fullGets, destOpens, copied, overtaken,
                   firstFailed>>

\* lines 68-83: the response arrives. "transport": send() failed; "status":
\* not a success status; "create": the temporary cannot be created;
\* "exact": a success status and the bytes of the selector; "full": a success
\* status and the whole resource (200 from a server that ignores Range)
PartRespond(i, outcome) ==
    /\ ~exited
    /\ task[i] = "sent"
    /\ IF outcome \in {"exact", "full"}
       THEN /\ tmp' = [tmp EXCEPT ![i] = File(<<>>)]
            /\ resp' = [resp EXCEPT ![i] = outcome]
            /\ task' = [task EXCEPT ![i] = "streaming"]
            /\ UNCHANGED <<overtaken, firstFailed>>
       ELSE /\ task' = [task EXCEPT ![i] = outcome]
            /\ overtaken' = Overtakes(i)
            /\ firstFailed' = FirstFailure(i)
            /\ UNCHANGED <<tmp, resp>>
    /\ UNCHANGED <<planVars, arg_parts, resLen, overflowChecks, pc, exited,
                   err, file_info, headAR, ranges, files, asmPos, sel, dest,
                   headCount, fullGets, rangeReqs, destOpens, copied>>

\* lines 86-106: the body is streamed into the temporary. ok: the stream ends
\* after all n bytes; otherwise a read or write fails after n bytes
PartStream(i, ok, n) ==
    /\ ~exited
    /\ task[i] = "streaming"
    /\ n \in 0..Len(Body(i))
    /\ ok => n = Len(Body(i))
    /\ tmp' = [tmp EXCEPT ![i] = File(Prefix(Body(i), n))]
    /\ task' = [task EXCEPT ![i] = IF ok THEN "ok" ELSE "body"]
    /\ overtaken' = Overtakes(i)
    /\ firstFailed' = IF ok THEN firstFailed ELSE FirstFailure(i)
    /\ UNCHANGED <<planVars, arg_parts, resLen, overflowChecks, pc, exited,
                   err, file_info, headAR, ranges, files, asmPos, sel, resp,
                   dest, headCount, fullGets, rangeReqs, destOpens, copied>>

PartStep ==
    \E i \in PartIdx :
        \/ PartPanic(i)
        \/ PartSend(i)
        \/ \E outcome \in {"transport", "status", "create", "exact", "full"} :
               PartRespond(i, outcome)
        \/ \E ok \in BOOLEAN, n \in 0..MaxLen : PartStream(i, ok, n)

(* ---- parallel_get, lines 174-186 (joining and assembling) ---- *)

\* try_join_all over the JoinHandles fails as soon as one of them yields a
\* JoinError, which is what a panicked task yields; the other tasks keep
\* running (line 176)
JoinPanicked ==
    /\ pc = "Fetching"
    /\ \E i \in PartIdx : task[i] = "panic"
    /\ pc' = "Failed"
    /\ err' = Err("join", -1)
    /\ UNCHANGED <<planVars, arg_parts, resLen, overflowChecks, exited,
                   file_info, headAR, ranges, files, asmPos, task, sel, resp,
                   dest, tmp, headCount, fullGets, rangeReqs, destOpens,
                   copied, overtaken,
                   firstFailed>>

\* a join that is satisfied by the first task that returns
SomeTaskReturned == \E i \in PartIdx : task[i] = "ok" \/ PartFailed(i)

\* every JoinHandle has yielded the Result of its get()
AllTasksReturned == \A i \in PartIdx : task[i] = "ok" \/ PartFailed(i)

\* try_join_all otherwise waits for every task and yields their outputs in
\* the order of the handles, each output being the Result of get()
JoinAll ==
    /\ pc = "Fetching"
    /\ AllTasksReturned
    /\ files' = [k \in 1..arg_parts |-> [idx |-> k - 1, ok |-> task[k - 1] = "ok"]]
    /\ pc' = "Joined"
    /\ UNCHANGED <<planVars, arg_parts, resLen, overflowChecks, exited, err,
                   file_info, headAR, ranges, asmPos, task, sel, resp, dest,
                   tmp, headCount, fullGets, rangeReqs, destOpens, copied,
                   overtaken,
                   firstFailed>>

\* line 177: fs::File::create(&dest)
CreateDest(ok) ==
    /\ pc = "Joined"
    /\ IF ok
       THEN /\ dest' = File(<<>>)
            /\ destOpens' = destOpens + 1
            /\ pc' = "Created"
            /\ err' = err
       ELSE /\ pc' = "Failed"
            /\ err' = Err("create_dest", -1)
            /\ UNCHANGED <<dest, destOpens>>
    /\ UNCHANGED <<planVars, arg_parts, resLen, overflowChecks, exited,
                   file_info, headAR, ranges, files, asmPos, task, sel, resp,
                   tmp, headCount, fullGets, rangeReqs, copied, overtaken,
                   firstFailed>>

\* a collect that overlooks every Err
FailedPositionsNone(fs) == {}

\* line 178, `collect::<Result<Vec<_>>>()`: the positions of fs that hold an
\* Err; the collect fails with the first of them
FailedPositions(fs) == {k \in 1..Len(fs) : ~fs[k].ok}

FirstOf(S) == CHOOSE k \in S : \A j \in S : k <= j

\* line 179, sort_unstable_by_key(idx): the indices are distinct
RECURSIVE SortByIdx(_)
SortByIdx(fs) ==
    IF fs = <<>> THEN <<>>
    ELSE LET k == CHOOSE a \in 1..Len(fs) : \A b \in 1..Len(fs) : fs[a].idx <= fs[b].idx
         IN <<fs[k]>> \o SortByIdx([j \in 1..(Len(fs) - 1) |->
                                      IF j < k THEN fs[j] ELSE fs[j + 1]])

\* lines 178-179
Collect ==
    /\ pc = "Created"
    /\ IF FailedPositions(files) # {}
       THEN /\ pc' = "Failed"
            /\ err' = Err("part", files[FirstOf(FailedPositions(files))].idx)
            /\ UNCHANGED <<files, asmPos>>
       ELSE /\ files' = SortByIdx(files)
            /\ asmPos' = 1
            /\ pc' = "AsmCopy"
            /\ err' = err
    /\ UNCHANGED <<planVars, arg_parts, resLen, overflowChecks, exited,
                   file_info, headAR, ranges, task, sel, resp, dest, tmp,
                   headCount, fullGets, rangeReqs, destOpens, copied,
                   overtaken,
                   firstFailed>>

\* lines 181-182: the temporary is opened and copied to the end of the
\* destination. "open": the open fails; "copy": the copy fails after n
\* bytes; "ok": all n bytes are copied
AsmCopy(outcome, n) ==
    /\ pc = "AsmCopy"
    /\ LET idx == files[asmPos].idx
           bytes == tmp[idx].data
       IN /\ n \in 0..Len(bytes)
          /\ outcome = "ok" => n = Len(bytes)
          /\ outcome = "open" => n = 0
          /\ dest' = File(dest.data \o Prefix(bytes, n))
          /\ IF outcome = "ok"
             THEN /\ copied' = Append(copied, idx)
                  /\ pc' = "AsmRemove"
                  /\ err' = err
             ELSE /\ pc' = "Failed"
                  /\ err' = Err(outcome, idx)
                  /\ UNCHANGED copied
    /\ UNCHANGED <<planVars, arg_parts, resLen, overflowChecks, exited,
                   file_info, headAR, ranges, files, asmPos, task, sel, resp,
                   tmp, headCount, fullGets, rangeReqs, destOpens, overtaken,
                   firstFailed>>

\* a removal that leaves the temporary in place
KeepFile(tmpf, idx) == tmpf

\* fs::remove_file on the temporary of part idx
RemoveFile(tmpf, idx) == [tmpf EXCEPT ![idx] = NoFile]

\* line 183, then the next iteration of the loop or line 185
AsmRemove(ok) ==
    /\ pc = "AsmRemove"
    /\ IF ok
       THEN /\ tmp' = RemoveFile(tmp, files[asmPos].idx)
            /\ asmPos' = asmPos + 1
            /\ pc' = IF asmPos = Len(files) THEN "Done" ELSE "AsmCopy"
            /\ err' = err
       ELSE /\ pc' = "Failed"
            /\ err' = Err("remove", files[asmPos].idx)
            /\ UNCHANGED <<tmp, asmPos>>
    /\ UNCHANGED <<planVars, arg_parts, resLen, overflowChecks, exited,
                   file_info, headAR, ranges, files, task, sel, resp, dest,
                   headCount, fullGets, rangeReqs, destOpens, copied,
                   overtaken,
                   firstFailed>>

AssembleStep ==
    \/ JoinPanicked
    \/ JoinAll
    \/ \E ok \in BOOLEAN : CreateDest(ok)
    \/ Collect
    \/ \E outcome \in {"ok", "open", "copy"}, n \in 0..MaxLen : AsmCopy(outcome, n)
    \/ \E ok \in BOOLEAN : AsmRemove(ok)

(* ---- full_get ---- *)

\* a full_get that creates the destination before it looks for the content
\* length of the response
OpensDestBeforeLength(outcome) == outcome \in {"ok", "body", "nolen"}

\* line 203 is reached: the status is a success (194-196) and the response
\* declares a content length (198-200); the creation itself succeeds
OpensDest(outcome) == outcome \in {"ok", "body"}

\* lines 189-222, from the response on. "transport": send() failed;
\* "status": not a success status; "nolen": the response declares no content
\* length; "create": the destination cannot be created; "body": a read or
\* write fails after n bytes; "ok": the body, the whole resource, is written
FullRespond(outcome, n) ==
    /\ pc = "FullGet"
    /\ n \in 0..resLen
    /\ outcome = "ok" => n = resLen
    /\ IF OpensDest(outcome)
       THEN /\ dest' = File(Prefix(Resource, n))
            /\ destOpens' = destOpens + 1
       ELSE UNCHANGED <<dest, destOpens>>
    /\ IF outcome = "ok"
       THEN pc' = "Done" /\ err' = err
       ELSE pc' = "Failed" /\ err' = Err(outcome, -1)
    /\ UNCHANGED <<planVars, arg_parts, resLen, overflowChecks, exited,
                   file_info, headAR, ranges, files, asmPos, task, sel, resp,
                   tmp, headCount, fullGets, rangeReqs, copied, overtaken,
                   firstFailed>>

FullStep ==
    \E outcome \in {"transport", "status", "nolen", "create", "body", "ok"},
       n \in 0..MaxLen :
        FullRespond(outcome, n)

(* ---- run / main ---- *)

Terminal == pc \in {"Done", "Failed", "Panicked"}

\* run() returns and the process exits (lines 259-290); tasks still running
\* end with it
Exit ==
    /\ Terminal
    /\ ~exited
    /\ exited' = TRUE
    /\ UNCHANGED <<planVars, arg_parts, resLen, overflowChecks, pc, err,
                   file_info, headAR, ranges, files, asmPos, task, sel, resp,
                   dest, tmp, headCount, fullGets, rangeReqs, destOpens,
                   copied, overtaken,
                   firstFailed>>

PlanStep == PlanFull \/ PlanZeroLength \/ PlanDivByZero \/ PlanSplit

Next == ProbeStep \/ PlanStep \/ PartStep \/ AssembleStep \/ FullStep \/ Exit

Spec == Init /\ [][Next]_vars

(* ============================== claims ================================= *)

\* the offsets a RangeQuery covers
Offsets(r) == r.start..(r.end - 1)

\* C1: for total_length >= 1 and 1 <= parts <= total_length, get_ranges
\* yields exactly `parts` ranges with indices 0..parts-1 in ascending order,
\* the first starting at 0, the last ending at total_length, each starting
\* where its predecessor ends: every offset of [0, total_length) lies in
\* exactly one range and no range covers anything else.
C1_PlanPartitions ==
    (pl_pc = "planned" /\ pl_len >= 1 /\ pl_parts <= pl_len) =>
        /\ Len(pl_out) = pl_parts
        /\ \A k \in 1..pl_parts : pl_out[k].idx = k - 1
        /\ pl_out[1].start = 0
        /\ pl_out[pl_parts].end = pl_len
        /\ \A k \in 1..(pl_parts - 1) : pl_out[k + 1].start = pl_out[k].end
        /\ \A o \in 0..(pl_len - 1) :
               Cardinality({k \in 1..pl_parts : o \in Offsets(pl_out[k])}) = 1
        /\ \A k \in 1..pl_parts : Offsets(pl_out[k]) \subseteq 0..(pl_len - 1)

\* a plan whose division leaves a remainder: 10 bytes in 3 parts
C1_Witness ==
    /\ pl_pc = "planned" /\ pl_len = 10 /\ pl_parts = 3
    /\ Len(pl_out) = 3
    /\ pl_out[3].start = 6 /\ pl_out[3].end = 10

\* C2: in every plan over a length L >= 1, whatever the number of parts
\* (more parts than bytes included), every range has start < end.
C2_NoEmptyRange ==
    (pl_pc = "planned" /\ pl_len >= 1) =>
        \A k \in 1..Len(pl_out) : pl_out[k].start < pl_out[k].end

\* C3: when the split path ends in Done with every part fetched
\* successfully and every range request answered with exactly the bytes of
\* its selector, the destination holds the whole resource, byte for byte,
\* whatever the order in which the tasks finished.
C3_RoundTrip ==
    (/\ pc = "Done" /\ ranges # <<>>
     /\ \A i \in PartIdx : task[i] = "ok" /\ resp[i] = "exact")
        => dest = File(Resource)

SplitPath == ranges # <<>>

NoRangeRequest == \A i \in PartIdx : rangeReqs[i] = 0

\* C4 as stated: when the probe response carries no Accept-Ranges or a value
\* other than `bytes`, the run issues exactly one whole-resource GET and no
\* range request.
C4_Original ==
    (exited /\ headAR \notin {"unknown", "bytes"}) =>
        (fullGets = 1 /\ NoRangeRequest)

\* C4 as amended: when the probe succeeds (a success status and a
\* Content-Length that is absent or parses) and its response carries no
\* Accept-Ranges or a value other than the literal `bytes`, the run issues
\* exactly one whole-resource GET and no range request, for every requested
\* part count; when the probe fails the run issues no GET at all.
C4_Fallback ==
    /\ (headAR \notin {"unknown", "bytes"}) => (NoRangeRequest /\ ~SplitPath)
    /\ (exited /\ headAR \notin {"unknown", "bytes"}) =>
           fullGets = (IF err.kind = "head" THEN 0 ELSE 1)

\* a run that asked for 2 parts, met `Accept-Ranges: Bytes`, and ended
\* after its single whole-resource GET
C4_Witness ==
    /\ exited /\ pc = "Done" /\ headAR = "Bytes" /\ arg_parts = 2
    /\ fullGets = 1 /\ NoRangeRequest

C6_NoPartialSuccess ==
    (\E i \in PartIdx : PartFailed(i)) =>
        /\ pc # "Done"
        /\ Terminal => (pc = "Failed" /\ err # NoErr)
        /\ copied = <<>>
        /\ dest.exists => dest.data \in {<<>>, OldData}

\* part 1 failed while part 0 succeeded and wrote its temporary; the run
\* failed at the collect, after the join
C6_Witness ==
    /\ pc = "Failed" /\ err = Err("part", 1)
    /\ task[0] = "ok" /\ tmp[0].exists /\ tmp[0].data # <<>>
    /\ PartFailed(1)

\* C7: once a part fetch has returned a status that is not a success, the
\* destination is never created nor truncated by the run.
C7_DestUntouched ==
    (\E i \in PartIdx : task[i] = "status") => destOpens = 0

\* C8: in Done the destination exists, holds the whole resource, and its
\* size is the content_length the probe reported.
C8_DoneSize ==
    pc = "Done" =>
        /\ dest = File(Resource)
        /\ Len(dest.data) = file_info.content_length

\* C9: when the split path is in Done no temporary part file exists, and a
\* temporary is only ever deleted once its part has been copied into the
\* destination.
C9_TemporariesRemoved ==
    /\ [](pc = "Done" /\ SplitPath => \A i \in PartIdx : ~tmp[i].exists)
    /\ [][\A i \in PartIdx :
            (tmp[i].exists /\ ~tmp'[i].exists) =>
                (\E k \in 1..Len(copied) : copied[k] = i)]_vars

\* two parts whose tasks did not finish in the order of their indices,
\* assembled
C9_Witness ==
    /\ pc = "Done" /\ arg_parts = 2 /\ overtaken
    /\ copied = <<0, 1>>
    /\ \A i \in PartIdx : ~tmp[i].exists

\* C10: when the process exits the HEAD request has been issued exactly
\* once and, on the split path, every part index has received exactly one
\* range request.
C10_OneRequestEach ==
    exited =>
        /\ headCount = 1
        /\ SplitPath => \A i \in PartIdx : rangeReqs[i] = 1

NoTemporary == \A i \in PartIdx : ~tmp[i].exists

\* C11: when the probe reports range support and a length of 0 (a missing
\* Content-Length is read as 0), the run goes from Planning to Failed and
\* nowhere else: no GET request of either kind is ever issued, and neither
\* the destination nor a temporary is created or truncated.
C11_ZeroLengthFails ==
    (file_info.supports_range /\ file_info.content_length = 0) =>
        /\ pc \in {"Planning", "Failed"}
        /\ pc = "Failed" => err = Err("zero_size", -1)
        /\ fullGets = 0 /\ NoRangeRequest
        /\ destOpens = 0 /\ NoTemporary /\ ~SplitPath

\* a 2-byte resource whose HEAD response has `Accept-Ranges: bytes` and no
\* Content-Length: the run failed and left the old destination alone
C11_Witness ==
    /\ exited /\ pc = "Failed" /\ err = Err("zero_size", -1)
    /\ resLen = 2 /\ file_info.supports_range /\ file_info.content_length = 0
    /\ dest = File(OldData)

\* C12: planning with 0 parts fails fast. Once the run has reached
\* get_ranges with parts = 0 (the probe reported range support and a length
\* that is not 0) it is in failure, with no plan, no task, no range
\* request, and neither the destination nor a temporary created.
C12_ZeroPartsFailFast ==
    (/\ arg_parts = 0
     /\ file_info.supports_range /\ file_info.content_length # 0
     /\ pc # "Planning") =>
        /\ pc = "Panicked"
        /\ ranges = <<>> /\ files = <<>>
        /\ NoRangeRequest /\ fullGets = 0
        /\ destOpens = 0 /\ NoTemporary

\* --parts 0 on a 3-byte resource of a server that supports ranges: the
\* process has ended by the panic of the division
C12_Witness ==
    /\ exited /\ pc = "Panicked" /\ arg_parts = 0
    /\ file_info = [content_length |-> 3, supports_range |-> TRUE]
    /\ destOpens = 0

\* C13: for L >= 1 and 1 <= N <= L, with part_len = L \div N, the Range
\* header of part i is `bytes=<i*part_len>-<(i+1)*part_len - 1>` for every
\* i < N - 1 and `bytes=<(N-1)*part_len>-<L-1>` for the last part, and no
\* header computation panics. L = 10, N = 3 plans [0,3), [3,6), [6,10);
\* L = 1000, N = 4 asks for 0-249, 250-499, 500-749, 750-999.
C13_Selectors ==
    (pl_len >= 1 /\ 1 <= pl_parts /\ pl_parts <= pl_len) =>
        /\ pl_pc # "panicked"
        /\ pl_pc = "selected" =>
            LET part_len == pl_len \div pl_parts
            IN /\ Len(pl_sel) = pl_parts
               /\ \A k \in 1..pl_parts :
                      pl_sel[k] = << (k - 1) * part_len,
                                     IF k < pl_parts THEN k * part_len - 1
                                     ELSE pl_len - 1 >>
               /\ (pl_len = 10 /\ pl_parts = 3) =>
                      /\ pl_out = << [start |-> 0, end |-> 3, idx |-> 0],
                                     [start |-> 3, end |-> 6, idx |-> 1],
                                     [start |-> 6, end |-> 10, idx |-> 2] >>
                      /\ pl_sel = << <<0, 2>>, <<3, 5>>, <<6, 9>> >>
               /\ (pl_len = 1000 /\ pl_parts = 4) =>
                      pl_sel = << <<0, 249>>, <<250, 499>>, <<500, 749>>,
                                  <<750, 999>> >>

\* the headers of 1000 bytes in 4 parts
C13_Witness ==
    /\ pl_pc = "selected" /\ pl_len = 1000 /\ pl_parts = 4
    /\ Len(pl_sel) = 4 /\ pl_sel[1] = <<0, 249>> /\ pl_sel[4] = <<750, 999>>

\* C14: on the split path (L >= 1, N >= 1) the computation of `end - 1`
\* never underflows, so no task panics on it, and every range request that
\* is issued carries `bytes=a-b` with 0 <= a <= b <= L - 1.
C14_WellFormedSelector ==
    SplitPath =>
        \A i \in PartIdx :
            /\ task[i] # "panic"
            /\ rangeReqs[i] >= 1 =>
                   /\ 0 <= sel[i][1] /\ sel[i][1] <= sel[i][2]
                   /\ sel[i][2] <= file_info.content_length - 1

\* a part fetch that has been spawned and has not finished
InFlight(i) == task[i] \in {"spawned", "sent", "streaming"}

\* C15: assembly never overlaps fetching. While the run is between the
\* creation of the destination and the end of the copy loop, and in every
\* state after the destination was created or truncated or a temporary was
\* copied, no part fetch is in flight.
C15_AssemblyAfterFetching ==
    (\/ pc \in {"Joined", "Created", "AsmCopy", "AsmRemove"}
     \/ (SplitPath /\ destOpens >= 1)
     \/ copied # <<>>) =>
        \A i \in PartIdx : ~InFlight(i)

\* the destination has just been created on the split path, after two
\* tasks that did not finish in the order of their indices
C15_Witness ==
    /\ pc = "Created" /\ destOpens = 1 /\ dest = File(<<>>)
    /\ arg_parts = 2 /\ overtaken
    /\ \A i \in PartIdx : task[i] = "ok"

\* C16: when two or more part fetches have failed and the run has failed
\* on them (at the collect of line 178), the error it surfaces is the error
\* of the part that failed first in time, whatever the indices of the
\* failed parts.
C16_FirstErrorInTime ==
    (/\ pc = "Failed" /\ err.kind = "part"
     /\ Cardinality({i \in PartIdx : PartFailed(i)}) >= 2) =>
        err.idx = firstFailed


\* the bytes of parts 0..i-1 in index order, as the server sent them
RECURSIVE PartsBefore(_)
PartsBefore(i) == IF i = 0 THEN <<>> ELSE PartsBefore(i - 1) \o Body(i - 1)

\* C17: when the assembly fails on part i (opening, copying or removing its
\* temporary) and every range request was answered with exactly the bytes of
\* its selector, the run is Failed with that error, the destination holds
\* parts 0..i-1 followed by the bytes of part i already copied, which is a
\* prefix of the resource, and the temporaries of the parts after i are as
\* their fetchers left them.
C17_AssemblyFailureKeepsPrefix ==
    (/\ pc = "Failed" /\ err.kind \in {"open", "copy", "remove"}
     /\ \A i \in PartIdx : resp[i] = "exact") =>
        /\ err.idx \in PartIdx
        /\ \E n \in 0..Len(Body(err.idx)) :
               dest.data = PartsBefore(err.idx) \o Prefix(Body(err.idx), n)
        /\ Len(dest.data) <= resLen
        /\ dest.data = Prefix(Resource, Len(dest.data))
        /\ \A j \in PartIdx : j > err.idx => tmp[j] = File(Body(j))


\* C18: once the getters of a plan are built, the temporary of each of them,
\* the only file its get() creates and writes (line 81), is its own: the
\* temporaries of two distinct part indices have different names, and none
\* of them has the name of the destination, so no getter writes the
\* destination or the temporary of another getter.
C18_SinksExclusive ==
    (pl_pc \in {"built", "selected", "panicked"}) =>
        /\ Len(pl_sinks) = Len(pl_out)
        /\ \A j, k \in 1..Len(pl_sinks) :
               pl_out[j].idx # pl_out[k].idx => pl_sinks[j] # pl_sinks[k]
        /\ \A j, k \in 1..Len(pl_out) : j # k => pl_out[j].idx # pl_out[k].idx
        /\ \A k \in 1..Len(pl_sinks) : pl_sinks[k] # pl_dest

\* eleven getters for a destination named like a temporary: the indices 1
\* and 10 share their first digit
C18_Witness ==
    /\ pl_pc = "built" /\ pl_parts = 11
    /\ pl_dest = <<".", "f", ".", "p", "a", "r", "t", "-", "0">>
    /\ pl_sinks[1] = <<".", ".", "f", ".", "p", "a", "r", "t", "-", "0",
                       ".", "p", "a", "r", "t", "-", "0">>
    /\ pl_sinks[11] = <<".", ".", "f", ".", "p", "a", "r", "t", "-", "0",
                        ".", "p", "a", "r", "t", "-", "1", "0">>


\* the Coordinator states of the state machine: full_get and the tasks are
\* Fetching, lines 177-185 are Assembling; a panic of the main task is none
\* of them
CoordinatorState ==
    CASE pc = "Probing" -> "Probing"
      [] pc = "Planning" -> "Planning"
      [] pc \in {"FullGet", "Fetching"} -> "Fetching"
      [] pc \in {"Joined", "Created", "AsmCopy", "AsmRemove"} -> "Assembling"
      [] pc = "Done" -> "Done"
      [] pc = "Failed" -> "Failed"
      [] OTHER -> "None"

StateOrder == <<"Probing", "Planning", "Fetching", "Assembling", "Done">>

Rank(s) == IF \E k \in 1..Len(StateOrder) : StateOrder[k] = s
           THEN CHOOSE k \in 1..Len(StateOrder) : StateOrder[k] = s
           ELSE 0

\* a step of the Coordinator that stays in its state, moves forward in the
\* order of the state machine, or fails from a state that is not terminal
OrderedStep ==
    LET s == CoordinatorState
        t == CoordinatorState'
    IN s # t =>
        /\ s \notin {"Done", "Failed"}
        /\ \/ t = "Failed"
           \/ Rank(s) >= 1 /\ Rank(t) > Rank(s)

\* every request that was issued is answered or fails, every file operation
\* returns, every task and the main task are scheduled: no step that can be
\* taken is put off for ever
FairSpec == Spec /\ WF_vars(Next)

\* C19: every run ends in Done or Failed and stays there, and until then
\* the Coordinator only moves along Probing, Planning, Fetching, Assembling,
\* Done, or to Failed from a state that is not terminal.
C19_TerminatesInOrder ==
    /\ <>[](CoordinatorState \in {"Done", "Failed"})
    /\ [][OrderedStep]_vars


\* the whole-resource GET has been answered and full_get has returned
FullGetReturned == fullGets = 1 /\ pc # "FullGet"

DestUntouched == destOpens = 0 /\ dest \in {NoFile, File(OldData)}

\* C20 as stated: on the single-stream path, when the GET is answered with a
\* success status and no transport or local I/O error occurs, the run is
\* Done with the destination holding the body, whether or not the response
\* declares a content length; a status that is not a success ends in Failed
\* with the destination neither created nor truncated.
C20_Original ==
    FullGetReturned =>
        /\ err.kind \notin {"transport", "status", "create", "body"} =>
               pc = "Done" /\ dest = File(Resource)
        /\ err.kind = "status" => pc = "Failed" /\ DestUntouched

\* C20, amended: on the single-stream path, when the GET is answered with a
\* success status and a declared content length and no transport or local
\* I/O error occurs, the run is Done with the destination holding the body;
\* a success status without a content length, like a status that is not a
\* success, ends in Failed with the destination neither created nor
\* truncated.
C20_FullGet ==
    FullGetReturned =>
        /\ err.kind \notin {"transport", "status", "create", "body", "nolen"} =>
               pc = "Done" /\ dest = File(Resource) /\ destOpens = 1
        /\ err.kind \in {"status", "nolen"} => pc = "Failed" /\ DestUntouched
        /\ NoRangeRequest /\ NoTemporary

\* a 3-byte resource of a server without range support, downloaded over an
\* older destination
C20_Witness ==
    /\ exited /\ pc = "Done" /\ fullGets = 1 /\ ~file_info.supports_range
    /\ resLen = 3 /\ dest = File(<<1, 2, 3>>) /\ destOpens = 1

====
